---- MODULE Spec2Model ----
(***************************************************************************)
(* A model of annatar's stream search: api.search / api._search, the       *)
(* aggregation loop that consumes a debrid provider's link stream, and the  *)
(* OffCloud provider's get_stream_links generator.                          *)
(*                                                                         *)
(* Two specifications:                                                     *)
(*   Spec          one call of api.search, end to end;                      *)
(*   SpecResolver  one invocation of OffCloud.get_stream_links, pulled by   *)
(*                 an arbitrary consumer that may set the stop event.       *)
(***************************************************************************)
EXTENDS Integers, Sequences, FiniteSets, TLC

\* ------------------------------------------------------------------ bounds
\* Largest global cap tried (max_results ranges over -MaxNegG..MaxG).
MaxG == 3
\* Most negative global cap tried, as a magnitude.
MaxNegG == 1
\* Longest link stream a provider yields in one request.
MaxLinks == 3
\* Number of distinct quality scores a release name can have.
MaxScore == 2
\* Longest list of cached torrents handed to OffCloud.
MaxTorrents == 3

\* ------------------------------------------------------------------ values
\* Python's None, where a variable holds either None or a record.
None == [absent |-> TRUE]
\* StreamResponse.error when no error is set.
NoError == "NoError"
\* What get_media_info returns when it finds the title.
MediaInfo == [name |-> "title", releaseInfo |-> "2020"]

\* Resolution labels Torrent.parse_title can give a release name.
Resolutions == {"1080p", "720p", "unknown"}

\* A release name, abstracted to what the two library functions that read
\* it return for it: the resolution label and the quality score.
Names == [resolution : Resolutions, score : 1..MaxScore]

\* Torrent.parse_title(name).resolution
ParseResolution(name) == name.resolution

\* human.rank_quality(name)
RankQuality(name) == name.score

\* The debrid providers: OffCloud (src/annatar/debrid/offcloud_api.py) and
\* any other DebridService, whose get_stream_links takes the keywords that
\* _search passes.
Providers == {"offcloud", "other"}

VARIABLES
    \* ---- api.search / api._search
    pc,               \* position of the call of search
    max_results,      \* the global cap G
    debrid,           \* which provider serves the request
    unique_searches,  \* UNIQUE_SEARCHES counter
    media_info,       \* result of get_media_info: None or MediaInfo
    indexer_calls,    \* calls of jackett.search_indexers
    resolver_calls,   \* calls of debrid.get_stream_links
    resolution_links, \* defaultdict: resolution label -> list of links
    key_order,        \* the keys of resolution_links, in insertion order
    total_links,
    total_processed,
    stop,             \* the asyncio.Event: is_set()
    link,             \* loop variable of the aggregation loop
    sorted_links,
    streams,
    res,              \* search's local `res`
    recorded,         \* calls of REQUEST_DURATION.labels(...).observe(...)
    outcome,          \* "running", then how search ended: "returned",
                      \* "raised" (a stage's fault left search) or
                      \* "sink_raised" (the finally clause raised)
    fault,            \* the stage that raised, "none" when none did
    propagating,      \* an exception is in flight through the finally clause
    stream,           \* the links the provider has yet to yield, where a
                      \* specification fixes its stream; <<>> where the
                      \* stream is chosen link by link
    \* ---- OffCloud.get_stream_links
    rpc,              \* position of the generator
    cached_items,     \* available_torrents.cached_items
    idx,              \* index of the torrent the for loop is at
    i,                \* the generator's local i
    rmax,             \* the generator's max_results
    sublink,          \* the link get_stream_link returned
    emitted,          \* links yielded so far
    subops,           \* get_stream_link calls started so far
    stop_at_start,    \* stop was set when the generator was first pulled
    subops_at_stop,   \* subops when stop was set
    emitted_at_stop,  \* emitted when stop was set
    observed          \* stop.is_set() has returned True to the generator

searchVars == <<pc, max_results, debrid, unique_searches, media_info,
                indexer_calls, resolver_calls, resolution_links, key_order,
                total_links, total_processed, link, sorted_links, streams,
                res, recorded, outcome, fault, propagating, stream>>

resolverVars == <<rpc, cached_items, idx, i, rmax, sublink, emitted, subops,
                  stop_at_start, subops_at_stop, emitted_at_stop, observed>>

vars == <<searchVars, stop, resolverVars>>


\* ------------------------------------------------------------- responses
\* StreamResponse(streams=[], error="Error getting media info")
NotFoundResponse == [streams |-> <<>>, error |-> "Error getting media info"]

\* StreamResponse(streams=[], error="Error searching")
ErrorResponse == [streams |-> <<>>, error |-> "Error searching"]

\* StreamResponse(streams=streams)
StreamResponse(ss) == [streams |-> ss, error |-> NoError]

\* error=True if res and res.error else False
ErrorLabel_AnyResponse(r) == r # None

ErrorLabel(r) == IF r # None /\ r.error # NoError THEN TRUE ELSE FALSE

\* ----------------------------------------------------------- aggregation
\* math.ceil(max_results / 2)
BucketCap(G) == (G + 1) \div 2

\* len(resolution_links[resolution]) >= math.ceil(max_results / 2)
BucketFull_Off(links, G) == Len(links) > BucketCap(G)

BucketFull(links, G) == Len(links) >= BucketCap(G)

\* total_links >= max_results
CapReached_Off(total, G) == total > G

CapReached(total, G) == total >= G

\* The key a defaultdict lookup inserts when it is absent.
Touch(keys, k) ==
    IF \E n \in 1..Len(keys) : keys[n] = k THEN keys ELSE Append(keys, k)

\* chain(*resolution_links.values()): the buckets, in key insertion order.
RECURSIVE Chain(_, _)
Chain(keys, buckets) ==
    IF keys = <<>> THEN <<>>
    ELSE buckets[Head(keys)] \o Chain(Tail(keys), buckets)

\* Number of accepted links over all buckets.
Accepted(buckets) ==
    Len(buckets["1080p"]) + Len(buckets["720p"]) + Len(buckets["unknown"])

\* One step of a stable descending sort: x goes after every element whose
\* key is at least its own.
RECURSIVE InsertRanked_Unstable(_, _)
InsertRanked_Unstable(sorted, x) ==
    IF sorted = <<>> THEN <<x>>
    ELSE IF RankQuality(Head(sorted).name) > RankQuality(x.name)
         THEN <<Head(sorted)>> \o InsertRanked_Unstable(Tail(sorted), x)
         ELSE <<x>> \o sorted

RECURSIVE InsertRanked(_, _)
InsertRanked(sorted, x) ==
    IF sorted = <<>> THEN <<x>>
    ELSE IF RankQuality(Head(sorted).name) >= RankQuality(x.name)
         THEN <<Head(sorted)>> \o InsertRanked(Tail(sorted), x)
         ELSE <<x>> \o sorted

\* sorted(links, key=lambda x: human.rank_quality(x.name), reverse=True)
RECURSIVE SortRanked(_, _)
SortRanked(done, todo) ==
    IF todo = <<>> THEN done
    ELSE SortRanked(InsertRanked(done, Head(todo)), Tail(todo))

\* debrid.short_name()
ShortName(d) == d

\* Stream(url=..., title=..., name=...) for one link
Stream(l, d) ==
    [url   |-> l.url,
     title |-> <<l.name, ParseResolution(l.name)>>,
     name  |-> <<ShortName(d), "Annatar", ParseResolution(l.name)>>]

\* streams.append(Stream(...)) for link in sorted_links
FormatStreams_DropsUnknown(ls, d) ==
    LET known(l) == ParseResolution(l.name) # "unknown"
        kept == SelectSeq(ls, known)
    IN  [n \in 1..Len(kept) |-> Stream(kept[n], d)]

FormatStreams(ls, d) == [n \in 1..Len(ls) |-> Stream(ls[n], d)]

\* ----------------------------------------------------------------- search
GRange == (0 - MaxNegG)..MaxG

EmptyBuckets == [r \in Resolutions |-> <<>>]

ResolverIdle ==
    /\ rpc = "idle"
    /\ cached_items = <<>>
    /\ idx = 0
    /\ i = 0
    /\ rmax = 0
    /\ sublink = None
    /\ emitted = 0
    /\ subops = 0
    /\ stop_at_start = FALSE
    /\ subops_at_stop = 0
    /\ emitted_at_stop = 0
    /\ observed = FALSE

SearchFresh ==
    /\ unique_searches = 0
    /\ media_info = None
    /\ indexer_calls = 0
    /\ resolver_calls = 0
    /\ resolution_links = EmptyBuckets
    /\ key_order = <<>>
    /\ total_links = 0
    /\ total_processed = 0
    /\ link = None
    /\ sorted_links = <<>>
    /\ streams = <<>>
    /\ res = None
    /\ recorded = <<>>
    /\ outcome = "running"
    /\ fault = "none"
    /\ propagating = FALSE

Init ==
    /\ pc = "unique"
    /\ max_results \in GRange
    /\ debrid \in Providers
    /\ stop = FALSE
    /\ stream = <<>>
    /\ SearchFresh
    /\ ResolverIdle

\* Where _search goes after the first-seen check: line 43 either way.
AfterUniqueAdd_ReturnsWhenSeen(first) ==
    IF first THEN "metadata" ELSE "finally"

AfterUniqueAdd(first) == "metadata"

\* if await db.unique_add(...): UNIQUE_SEARCHES.inc()
UniqueAdd ==
    /\ pc = "unique"
    /\ \E first \in BOOLEAN :
          /\ unique_searches' = IF first THEN unique_searches + 1
                                ELSE unique_searches
          /\ pc' = AfterUniqueAdd(first)
    /\ UNCHANGED <<max_results, debrid, media_info, indexer_calls,
                   resolver_calls, resolution_links, key_order, total_links,
                   total_processed, link, sorted_links, streams, res,
                   recorded, outcome, fault, propagating, stop, stream,
                   resolverVars>>

\* Where _search goes after the lookup: `if not media_info: return ...`
\* leaves _search, and search's finally clause is next.
AfterLookup_NoReturn(mi) == "query"

AfterLookup(mi) == IF mi = None THEN "finally" ELSE "query"

\* media_info = await get_media_info(...); if not media_info: return ...
GetMediaInfo ==
    /\ pc = "metadata"
    /\ \E mi \in {None, MediaInfo} :
          /\ media_info' = mi
          /\ res' = IF mi = None THEN NotFoundResponse ELSE res
          /\ pc' = AfterLookup(mi)
    /\ UNCHANGED <<max_results, debrid, unique_searches, indexer_calls,
                   resolver_calls, resolution_links, key_order, total_links,
                   total_processed, link, sorted_links, streams, recorded,
                   outcome, fault, propagating, stop, stream,
                   resolverVars>>

\* q = SearchQuery(...), season and episode
BuildQuery ==
    /\ pc = "query"
    /\ pc' = "indexer"
    /\ UNCHANGED <<max_results, debrid, unique_searches, media_info,
                   indexer_calls, resolver_calls, resolution_links, key_order,
                   total_links, total_processed, link, sorted_links, streams,
                   res, recorded, outcome, fault, propagating, stop, stream,
                   resolverVars>>

\* torrents = await jackett.search_indexers(...)
SearchIndexers ==
    /\ pc = "indexer"
    /\ indexer_calls' = indexer_calls + 1
    /\ pc' = "call"
    /\ UNCHANGED <<max_results, debrid, unique_searches, media_info,
                   resolver_calls, resolution_links, key_order, total_links,
                   total_processed, link, sorted_links, streams, res,
                   recorded, outcome, fault, propagating, stop, stream,
                   resolverVars>>

\* The stages of _search that await or call a collaborator that can raise.
FaultStages ==
    {"unique", "metadata", "query", "indexer", "loop", "rank", "format"}

\* Whether search's `except Exception` handles a fault raised at `stage`:
\* the try block holds the whole call of _search.
Caught_NotTheStream(stage) == stage # "loop"

Caught(stage) == TRUE

\* What the except clause leaves in res, whatever had been accepted.
Handled_Partial(accepted) == StreamResponse(accepted)

Handled(accepted) == ErrorResponse

\* An exception raised at `stage`: the except clause when it handles it,
\* and the finally clause next either way.
Raise(stage) ==
    /\ fault' = stage
    /\ pc' = "finally"
    /\ IF Caught(stage)
       THEN /\ res' = Handled(Chain(key_order, resolution_links))
            /\ propagating' = FALSE
       ELSE /\ res' = res
            /\ propagating' = TRUE

\* A collaborator raises; except Exception as e: res = StreamResponse(...)
Fault ==
    /\ pc \in FaultStages
    /\ Raise(pc)
    /\ UNCHANGED <<max_results, debrid, unique_searches, media_info,
                   indexer_calls, resolver_calls, resolution_links, key_order,
                   total_links, total_processed, link, sorted_links, streams,
                   recorded, outcome, stop, stream,
                   resolverVars>>

\* Whether the provider's get_stream_links binds the keywords _search
\* passes (torrents, season_episode, stop, max_results). OffCloud's takes
\* torrents, stop, max_results, season, episode: the call raises TypeError.
AcceptsKeywords(d) == d # "offcloud"

\* resolution_links = defaultdict(list) ... debrid.get_stream_links(...)
CallResolver ==
    /\ pc = "call"
    /\ resolver_calls' = resolver_calls + 1
    /\ resolution_links' = EmptyBuckets
    /\ key_order' = <<>>
    /\ total_links' = 0
    /\ total_processed' = 0
    /\ stop' = FALSE
    /\ IF AcceptsKeywords(debrid)
       THEN /\ pc' = "loop"
            /\ UNCHANGED <<res, fault, propagating>>
       ELSE Raise("call")
    /\ UNCHANGED <<max_results, debrid, unique_searches, media_info,
                   indexer_calls, link, sorted_links, streams, recorded,
                   outcome, stream,
                   resolverVars>>

\* async for link in ...: total_processed += 1; resolution = ...
NextLink ==
    /\ pc = "loop"
    /\ total_processed < MaxLinks
    /\ \E n \in Names : link' = [url |-> total_processed + 1, name |-> n]
    /\ total_processed' = total_processed + 1
    /\ pc' = "check"
    /\ UNCHANGED <<max_results, debrid, unique_searches, media_info,
                   indexer_calls, resolver_calls, resolution_links, key_order,
                   total_links, sorted_links, streams, res, recorded, outcome,
                   fault, propagating, stop, stream,
                   resolverVars>>

\* The stream ends (StopAsyncIteration): the loop is left.
EndOfStream ==
    /\ pc = "loop"
    /\ pc' = "rank"
    /\ UNCHANGED <<max_results, debrid, unique_searches, media_info,
                   indexer_calls, resolver_calls, resolution_links, key_order,
                   total_links, total_processed, link, sorted_links, streams,
                   res, recorded, outcome, fault, propagating, stop, stream,
                   resolverVars>>

\* if len(resolution_links[resolution]) >= ceil(max_results / 2): continue
CheckBucket ==
    /\ pc = "check"
    /\ key_order' = Touch(key_order, ParseResolution(link.name))
    /\ pc' = IF BucketFull(resolution_links[ParseResolution(link.name)],
                           max_results)
             THEN "loop" ELSE "append"
    /\ UNCHANGED <<max_results, debrid, unique_searches, media_info,
                   indexer_calls, resolver_calls, resolution_links,
                   total_links, total_processed, link, sorted_links, streams,
                   res, recorded, outcome, fault, propagating, stop, stream,
                   resolverVars>>

\* resolution_links[resolution].append(link)
AppendLink ==
    /\ pc = "append"
    /\ resolution_links' =
          [resolution_links EXCEPT ![ParseResolution(link.name)] =
              Append(@, link)]
    /\ pc' = "count"
    /\ UNCHANGED <<max_results, debrid, unique_searches, media_info,
                   indexer_calls, resolver_calls, key_order, total_links,
                   total_processed, link, sorted_links, streams, res,
                   recorded, outcome, fault, propagating, stop, stream,
                   resolverVars>>

\* total_links += 1; if total_links >= max_results: break
CountLink ==
    /\ pc = "count"
    /\ total_links' = total_links + 1
    /\ pc' = IF CapReached(total_links + 1, max_results)
             THEN "rank" ELSE "loop"
    /\ UNCHANGED <<max_results, debrid, unique_searches, media_info,
                   indexer_calls, resolver_calls, resolution_links, key_order,
                   total_processed, link, sorted_links, streams, res,
                   recorded, outcome, fault, propagating, stop, stream,
                   resolverVars>>

\* sorted_links = list(sorted(chain(...), key=rank_quality, reverse=True))
Rank ==
    /\ pc = "rank"
    /\ sorted_links' = SortRanked(<<>>, Chain(key_order, resolution_links))
    /\ pc' = "format"
    /\ UNCHANGED <<max_results, debrid, unique_searches, media_info,
                   indexer_calls, resolver_calls, resolution_links, key_order,
                   total_links, total_processed, link, streams, res,
                   recorded, outcome, fault, propagating, stop, stream,
                   resolverVars>>

\* for link in sorted_links: streams.append(...); return StreamResponse(...)
Format ==
    /\ pc = "format"
    /\ streams' = FormatStreams(sorted_links, debrid)
    /\ res' = StreamResponse(FormatStreams(sorted_links, debrid))
    /\ pc' = "finally"
    /\ UNCHANGED <<max_results, debrid, unique_searches, media_info,
                   indexer_calls, resolver_calls, resolution_links, key_order,
                   total_links, total_processed, link, sorted_links,
                   recorded, outcome, fault, propagating, stop, stream,
                   resolverVars>>

\* finally: REQUEST_DURATION.labels(..., error=...).observe(secs, ...)
\* `recorded` logs the call; the sink accepts it or raises, and what the
\* finally clause raises replaces the return.
RecordDuration ==
    /\ pc = "finally"
    /\ recorded' = Append(recorded, [error |-> ErrorLabel(res)])
    /\ \E sink_ok \in BOOLEAN :
          outcome' = IF ~sink_ok THEN "sink_raised"
                     ELSE IF propagating THEN "raised" ELSE "returned"
    /\ pc' = "done"
    /\ UNCHANGED <<max_results, debrid, unique_searches, media_info,
                   indexer_calls, resolver_calls, resolution_links, key_order,
                   total_links, total_processed, link, sorted_links, streams,
                   res, fault, propagating, stop, stream,
                   resolverVars>>

Next ==
    \/ UniqueAdd
    \/ GetMediaInfo
    \/ BuildQuery
    \/ SearchIndexers
    \/ CallResolver
    \/ NextLink
    \/ EndOfStream
    \/ CheckBucket
    \/ AppendLink
    \/ CountLink
    \/ Rank
    \/ Format
    \/ Fault
    \/ RecordDuration

Spec == Init /\ [][Next]_vars


\* ------------------------------------------- OffCloud.get_stream_links
\* Info hashes of cached torrents; "" is an entry `if not torrent` skips.
Hashes == {"h1", "h2"}

TorrentLists ==
    UNION {[1..n -> Hashes \cup {""}] : n \in 0..MaxTorrents}

\* The next torrent the for loop does not skip, from position k on
\* (0 when the list is exhausted): `if not torrent: continue`.
NextTorrent(items, k) ==
    IF \E n \in k..Len(items) : items[n] # ""
    THEN CHOOSE n \in k..Len(items) :
            /\ items[n] # ""
            /\ \A m \in k..(n - 1) : items[m] = ""
    ELSE 0

\* if i >= max_results: return
HintReached_Off(count, m) == count > m

HintReached(count, m) == count >= m

\* The for loop goes on at position k: it skips the falsy entries and
\* starts get_stream_link for the next torrent, or the generator ends.
ContinueLoop_Hangs(k) ==
    LET n == NextTorrent(cached_items, k) IN
    IF n = 0
    THEN /\ rpc' = "waiting"
         /\ UNCHANGED <<idx, subops>>
    ELSE /\ rpc' = "inflight"
         /\ idx' = n
         /\ subops' = subops + 1

ContinueLoop(k) ==
    LET n == NextTorrent(cached_items, k) IN
    IF n = 0
    THEN /\ rpc' = "ended"
         /\ UNCHANGED <<idx, subops>>
    ELSE /\ rpc' = "inflight"
         /\ idx' = n
         /\ subops' = subops + 1

\* if stop.is_set(): return      (then the next iteration)
StopCheck ==
    IF stop
    THEN /\ rpc' = "ended"
         /\ observed' = TRUE
         /\ UNCHANGED <<idx, subops>>
    ELSE /\ observed' = observed
         /\ ContinueLoop(idx + 1)

InitResolver ==
    /\ pc = "idle"
    /\ max_results = 0
    /\ debrid = "offcloud"
    /\ SearchFresh
    /\ stream = <<>>
    /\ stop \in BOOLEAN
    /\ rpc = "created"
    /\ cached_items \in TorrentLists
    /\ rmax \in GRange
    /\ idx = 0
    /\ i = 0
    /\ sublink = None
    /\ emitted = 0
    /\ subops = 0
    /\ stop_at_start = FALSE
    /\ subops_at_stop = 0
    /\ emitted_at_stop = 0
    /\ observed = FALSE

\* The first pull: the body runs to the await of
\* get_torrent_instant_availability.
FirstPull ==
    /\ rpc = "created"
    /\ rpc' = "availability"
    /\ stop_at_start' = stop
    /\ UNCHANGED <<searchVars, stop, cached_items, idx, i, rmax, sublink,
                   emitted, subops, subops_at_stop, emitted_at_stop,
                   observed>>

\* available_torrents = ...; if not available_torrents or len(...) == 0:
\* return; i = 0; for torrent in ...: if not torrent: continue
AvailabilityReturns ==
    /\ rpc = "availability"
    /\ \E available \in BOOLEAN :
          IF ~available \/ Len(cached_items) = 0
          THEN /\ rpc' = "ended"
               /\ UNCHANGED <<idx, subops>>
          ELSE ContinueLoop(1)
    /\ i' = 0
    /\ UNCHANGED <<searchVars, stop, cached_items, rmax, sublink, emitted,
                   stop_at_start, subops_at_stop, emitted_at_stop, observed>>

\* if link := await self.get_stream_link(...): yield link
\* (a falsy result goes on to the stop check)
SubOpReturns ==
    /\ rpc = "inflight"
    /\ \/ \E n \in Names :
             /\ sublink' = [url |-> cached_items[idx], name |-> n]
             /\ rpc' = "yielded"
             /\ emitted' = emitted + 1
             /\ UNCHANGED <<idx, subops, observed>>
       \/ /\ sublink' = None
          /\ emitted' = emitted
          /\ StopCheck
    /\ UNCHANGED <<searchVars, stop, cached_items, i, rmax, stop_at_start,
                   subops_at_stop, emitted_at_stop>>

\* The consumer pulls again: i += 1; if i >= max_results: return;
\* if stop.is_set(): return
Resume ==
    /\ rpc = "yielded"
    /\ i' = i + 1
    /\ IF HintReached(i + 1, rmax)
       THEN /\ rpc' = "ended"
            /\ UNCHANGED <<idx, subops, observed>>
       ELSE StopCheck
    /\ UNCHANGED <<searchVars, stop, cached_items, rmax, sublink, emitted,
                   stop_at_start, subops_at_stop, emitted_at_stop>>

\* make_request raises (response.raise_for_status()) in an awaited call.
ResolverRaises ==
    /\ rpc \in {"availability", "inflight"}
    /\ rpc' = "raised"
    /\ UNCHANGED <<searchVars, stop, cached_items, idx, i, rmax, sublink,
                   emitted, subops, stop_at_start, subops_at_stop,
                   emitted_at_stop, observed>>

\* The consumer leaves its loop with the generator suspended at the yield.
Abandon ==
    /\ rpc = "yielded"
    /\ rpc' = "abandoned"
    /\ UNCHANGED <<searchVars, stop, cached_items, idx, i, rmax, sublink,
                   emitted, subops, stop_at_start, subops_at_stop,
                   emitted_at_stop, observed>>

\* Whoever holds the event sets it, while the generator is suspended.
SetStop ==
    /\ rpc \in {"availability", "inflight", "yielded"}
    /\ ~stop
    /\ stop' = TRUE
    /\ subops_at_stop' = subops
    /\ emitted_at_stop' = emitted
    /\ UNCHANGED <<searchVars, rpc, cached_items, idx, i, rmax, sublink,
                   emitted, subops, stop_at_start, observed>>

NextResolver ==
    \/ FirstPull
    \/ AvailabilityReturns
    \/ SubOpReturns
    \/ Resume
    \/ ResolverRaises
    \/ Abandon
    \/ SetStop

SpecResolver == InitResolver /\ [][NextResolver]_vars


\* ================================================================ claims
\* Positions of search at which the aggregation loop of _search is
\* running or has been left without a fault.
InAggregation ==
    /\ pc \in {"loop", "check", "append", "count", "rank", "format"}
    /\ resolver_calls = 1

\* C1: for every global cap G >= 0 and every link stream, at every point
\* of the aggregation loop and after it, the number of accepted links
\* over all buckets (and the counter total_links) is at most G.
C1_TotalAcceptedAtMostCap ==
    max_results >= 0 =>
        /\ Accepted(resolution_links) <= max_results
        /\ total_links <= max_results

\* C1 witness: the loop was left at the cap, after a link had been
\* discarded on the way.
C1_Witness ==
    /\ pc = "rank"
    /\ max_results >= 2
    /\ Accepted(resolution_links) = max_results
    /\ total_processed > total_links

\* C2: for every global cap G >= 0 and every link stream, no bucket holds
\* more than ceil(G/2) links (for integers: 2 * len <= G + 1).
C2_BucketAtMostHalfCap ==
    max_results >= 0 =>
        \A r \in Resolutions :
            2 * Len(resolution_links[r]) <= max_results + 1

\* C2 witness: a link arrived for a bucket that already held ceil(G/2)
\* links and was discarded.
C2_Witness ==
    /\ pc = "loop"
    /\ max_results >= 2
    /\ link # None
    /\ total_processed > total_links
    /\ 2 * Len(resolution_links[ParseResolution(link.name)]) >= max_results
    /\ resolution_links[ParseResolution(link.name)] # <<>>
    /\ \A n \in 1..Len(resolution_links[ParseResolution(link.name)]) :
          resolution_links[ParseResolution(link.name)][n] # link

\* C3: the stop event is set if and only if the global cap has been
\* reached by accepting links: set once total_links >= G, not before.
C3_StopIffCapReached ==
    InAggregation =>
        (stop <=> (total_links >= 1 /\ total_links >= max_results))

\* C4: with G <= 0 the aggregation accepts nothing, consumes no link and
\* has set the stop event by the time it is over.
C4_NonPositiveCap ==
    (max_results <= 0 /\ InAggregation /\ pc \in {"rank", "format"}) =>
        /\ Accepted(resolution_links) = 0
        /\ total_processed = 0
        /\ stop

\* C5: when the metadata lookup returns nothing, the response is the empty
\* stream list with "Error getting media info", and neither the indexer
\* search nor the resolver is invoked in that run.
C5_MetadataNotFound ==
    (media_info = None /\ fault = "none" /\ pc \in {"finally", "done"}) =>
        /\ res = [streams |-> <<>>, error |-> "Error getting media info"]
        /\ indexer_calls = 0
        /\ resolver_calls = 0
        /\ total_processed = 0
        /\ ~propagating
        /\ outcome \in {"running", "returned", "sink_raised"}

\* C5 witness: search has returned after a lookup that found nothing.
C5_Witness ==
    /\ pc = "done"
    /\ media_info = None
    /\ fault = "none"
    /\ outcome = "returned"

\* The stages after the metadata lookup.
LaterStages == {"query", "indexer", "call", "loop", "rank", "format"}

\* C6: a fault raised in a stage after the metadata lookup does not leave
\* search: the except clause makes the response the empty stream list with
\* "Error searching", whatever had been accepted, and search returns it
\* (the only exception that can still replace the return is one the
\* finally clause itself raises).
C6_LaterFaultHandled ==
    (fault \in LaterStages /\ pc \in {"finally", "done"}) =>
        /\ res = [streams |-> <<>>, error |-> "Error searching"]
        /\ ~propagating
        /\ outcome \in {"running", "returned", "sink_raised"}

\* C6 witness: the resolver raised after links had been accepted, and
\* search returned.
C6_Witness ==
    /\ pc = "done"
    /\ fault = "loop"
    /\ total_links >= 2
    /\ outcome = "returned"

\* C7: search calls the duration histogram exactly once, on every exit
\* path and not before the exit, and the error label it passes is true
\* exactly when the response carries an error message.
C7_RecordedOnce ==
    /\ pc # "done" => recorded = <<>>
    /\ pc = "done" =>
          /\ Len(recorded) = 1
          /\ res # None
          /\ recorded[1].error <=> (res.error # NoError)

\* C7 witness: the resolver raised after yielding 2 links; one recording,
\* with error = true.
C7_Witness ==
    /\ pc = "done"
    /\ fault = "loop"
    /\ total_processed = 2
    /\ recorded = <<[error |-> TRUE]>>
    /\ res.error = "Error searching"

\* C8: a failure of the observability sink does not fail the request: a
\* run in which only the first-seen store raised does not end in "Error
\* searching", and no call of search ends with an exception.
C8_SinkFailureHarmless ==
    /\ (fault = "unique" /\ pc \in {"finally", "done"}) =>
          res.error # "Error searching"
    /\ outcome \notin {"raised", "sink_raised"}


\* C9: once the stop event is set the generator stops producing: when it
\* was set before the first pull the generator yields nothing, and after
\* the generator has seen it set, it has ended (for max_results >= 1).
C9_StopsOnceSignalled ==
    rmax >= 1 =>
        /\ stop_at_start => emitted = 0
        /\ observed => rpc = "ended"

\* C10: for every max_results >= 0 and every list of cached torrents, one
\* invocation yields at most max_results links.
C10_AtMostMaxResults ==
    rmax >= 0 => emitted <= rmax


\* search has left _search by its last return: every stage ran, no fault.
Succeeded ==
    /\ pc \in {"finally", "done"}
    /\ fault = "none"
    /\ media_info # None

C12_StreamsAreAcceptedLinks ==
    Succeeded =>
        /\ res.error = NoError
        /\ Len(res.streams) = total_links
        /\ Len(res.streams) = Accepted(resolution_links)
        /\ Len(sorted_links) = Len(res.streams)
        /\ \A n \in 1..Len(res.streams) :
              /\ res.streams[n].url = sorted_links[n].url
              /\ res.streams[n].title[1] = sorted_links[n].name
        /\ \A r \in Resolutions :
              \A k \in 1..Len(resolution_links[r]) :
                  Cardinality({n \in 1..Len(res.streams) :
                      res.streams[n].url = resolution_links[r][k].url}) = 1
        /\ \A a, b \in 1..Len(sorted_links) :
              a < b => RankQuality(sorted_links[a].name) >=
                       RankQuality(sorted_links[b].name)

\* C12 witness: a successful run with two streams, one link discarded and
\* the ranking having reordered the accepted links.
C12_Witness ==
    /\ Succeeded
    /\ pc = "done"
    /\ Len(res.streams) = 2
    /\ total_processed = 3
    /\ sorted_links # Chain(key_order, resolution_links)
    /\ \E r \in Resolutions : resolution_links[r] # <<>> /\ r = "unknown"

\* C14: ranking is idempotent: sorting the ranked links again by
\* descending quality score returns them in the same order.
C14_RankIdempotent ==
    SortRanked(<<>>, sorted_links) = sorted_links

\* C14 witness: three links were ranked, two of them with the same score,
\* and the ranking changed their order.
C14_Witness ==
    /\ pc = "format"
    /\ Len(sorted_links) = 3
    /\ sorted_links # Chain(key_order, resolution_links)
    /\ \E a, b \in 1..3 :
          /\ a # b
          /\ RankQuality(sorted_links[a].name) =
             RankQuality(sorted_links[b].name)


\* C15: links are processed in arrival order and acceptance is greedy: a
\* pulled link carries the next arrival number; it is discarded exactly
\* when its bucket holds at least ceil(G/2) links (2 * len >= G), and a
\* discard changes neither the buckets nor total_links; otherwise it is
\* appended to the end of its bucket and counted.
C15_GreedyInArrivalOrder ==
    [][
        /\ (pc = "loop" /\ pc' = "check") =>
              /\ total_processed' = total_processed + 1
              /\ link'.url = total_processed'
              /\ resolution_links' = resolution_links
              /\ total_links' = total_links
        /\ pc = "check" =>
              /\ (pc' = "loop") <=>
                    (2 * Len(resolution_links[ParseResolution(link.name)])
                        >= max_results)
              /\ (pc' = "append") <=>
                    (2 * Len(resolution_links[ParseResolution(link.name)])
                        < max_results)
              /\ resolution_links' = resolution_links
              /\ total_links' = total_links
        /\ pc = "append" =>
              /\ pc' = "count"
              /\ resolution_links' =
                    [resolution_links EXCEPT
                        ![ParseResolution(link.name)] = Append(@, link)]
        /\ pc = "count" =>
              /\ total_links' = total_links + 1
              /\ resolution_links' = resolution_links
    ]_vars

\* C15 witness: a link of resolution "unknown" was accepted and another
\* link was discarded for a full bucket.
C15_Witness ==
    /\ pc = "loop"
    /\ resolution_links["unknown"] # <<>>
    /\ total_processed = 3
    /\ total_links = 2
    /\ max_results = 3

\* The positions of search inside the stages after the metadata lookup.
StagePositions ==
    {"query", "indexer", "call", "loop", "check", "append", "count",
     "rank", "format"}

\* C16: one run goes through metadata lookup, indexer search, aggregation
\* and rank/format in that order, each at most once, none before the one
\* before it is complete and none after a failure, and ends with exactly
\* one of: a response without error, after all four stages; a response
\* with an error message, when a stage failed or no metadata was found.
C16_StagesInOrder ==
    /\ indexer_calls \in {0, 1}
    /\ resolver_calls \in {0, 1}
    /\ indexer_calls = 1 => media_info # None
    /\ resolver_calls = 1 => indexer_calls = 1
    /\ pc \in {"loop", "check", "append", "count", "rank", "format"} =>
          resolver_calls = 1
    /\ sorted_links # <<>> => pc \in {"format", "finally", "done"}
    /\ streams # <<>> => pc \in {"finally", "done"}
    /\ pc \in StagePositions =>
          /\ fault = "none"
          /\ res = None
          /\ media_info # None
    /\ pc \in {"finally", "done"} =>
          /\ res # None
          /\ (res.error = NoError) <=>
                (/\ fault = "none"
                 /\ media_info # None
                 /\ indexer_calls = 1
                 /\ resolver_calls = 1
                 /\ Len(res.streams) = Len(sorted_links))
          /\ (res.error # NoError) <=>
                (fault # "none" \/ media_info = None)
          /\ res.error # NoError => res.streams = <<>>

\* C16 witness: a run that ended without error after all four stages.
C16_Witness ==
    /\ pc = "done"
    /\ res.error = NoError
    /\ Len(res.streams) = 3
    /\ outcome = "returned"

\* C17: the first-seen check is advisory: whatever db.unique_add returns,
\* _search goes on to the metadata lookup and nothing but the unique-search
\* counter differs; the response of a finished run is determined by the
\* metadata, the fault and the ranked links, not by the counter.
C17_FirstSeenAdvisory ==
    /\ [][(pc = "unique" /\ fault' = "none") =>
            /\ pc' = "metadata"
            /\ unique_searches' \in {unique_searches, unique_searches + 1}
            /\ UNCHANGED <<max_results, debrid, media_info, indexer_calls,
                           resolver_calls, resolution_links, key_order,
                           total_links, total_processed, link, sorted_links,
                           streams, res, recorded, outcome, fault,
                           propagating, stop>>
         ]_vars
    /\ [](pc = "done" =>
            res = IF fault # "none"
                  THEN [streams |-> <<>>, error |-> "Error searching"]
                  ELSE IF media_info = None
                  THEN [streams |-> <<>>,
                        error |-> "Error getting media info"]
                  ELSE [streams |-> [n \in 1..Len(sorted_links) |->
                                        Stream(sorted_links[n], debrid)],
                        error |-> NoError])

\* C17 witness: a request whose key had been seen before (the counter was
\* not incremented) ended with streams.
C17_Witness ==
    /\ pc = "done"
    /\ unique_searches = 0
    /\ fault = "none"
    /\ res.streams # <<>>


\* ------------------------------------------------ a provider's fixed stream
\* The streams of scenario A: 5 links, 3 labeled "1080p" and 2 labeled
\* "720p", in any arrival order and with any scores.
ScenarioAStreams ==
    {s \in [1..5 -> Names] :
        /\ Cardinality({k \in 1..5 : ParseResolution(s[k]) = "1080p"}) = 3
        /\ Cardinality({k \in 1..5 : ParseResolution(s[k]) = "720p"}) = 2}

\* search(max_results=4) served by a provider that yields such a stream.
InitScenarioA ==
    /\ pc = "unique"
    /\ max_results = 4
    /\ debrid = "other"
    /\ stop = FALSE
    /\ stream \in ScenarioAStreams
    /\ SearchFresh
    /\ ResolverIdle

\* async for link in ...: the next link of the fixed stream
NextLinkFixed ==
    /\ pc = "loop"
    /\ stream # <<>>
    /\ link' = [url |-> total_processed + 1, name |-> Head(stream)]
    /\ stream' = Tail(stream)
    /\ total_processed' = total_processed + 1
    /\ pc' = "check"
    /\ UNCHANGED <<max_results, debrid, unique_searches, media_info,
                   indexer_calls, resolver_calls, resolution_links, key_order,
                   total_links, sorted_links, streams, res, recorded, outcome,
                   fault, propagating, stop, resolverVars>>

\* A collaborator other than the provider's stream raises. (The loop is
\* never waiting at the end of this stream, see C13_ScenarioA: the cap is
\* reached on the last link at the latest, so the scenario has no step for
\* the end of the stream.)
FaultOutsideStream ==
    /\ pc # "loop"
    /\ Fault

NextScenarioA ==
    \/ UniqueAdd
    \/ GetMediaInfo
    \/ BuildQuery
    \/ SearchIndexers
    \/ CallResolver
    \/ NextLinkFixed
    \/ CheckBucket
    \/ AppendLink
    \/ CountLink
    \/ Rank
    \/ Format
    \/ FaultOutsideStream
    \/ RecordDuration

SpecScenarioA == InitScenarioA /\ [][NextScenarioA]_vars

\* C13: for a stream of 5 links, 3 "1080p" and 2 "720p" in any order, and
\* global cap 4, at most 2 "1080p" and at most 2 "720p" links are accepted
\* at any time, and once the loop is over exactly 4 links are accepted.
C13_ScenarioA ==
    /\ Len(resolution_links["1080p"]) <= 2
    /\ Len(resolution_links["720p"]) <= 2
    /\ resolution_links["unknown"] = <<>>
    /\ pc = "loop" => (stream # <<>> /\ total_links < 4)
    /\ (pc \in {"rank", "format"} \/ Succeeded) =>
          /\ total_links = 4
          /\ Accepted(resolution_links) = 4

\* C13 witness: the loop is over after all 5 links arrived, one "1080p"
\* link discarded.
C13_Witness ==
    /\ pc = "rank"
    /\ total_processed = 5
    /\ total_links = 4
    /\ stream = <<>>


\* --------------------------- the loop of _search over OffCloud's generator
\* The aggregation loop (api.py:70-87) consuming the generator of
\* OffCloud.get_stream_links with the same stop event and max_results,
\* from the point where the generator object exists. (In search as written
\* the call that creates it raises TypeError, see AcceptsKeywords; this
\* specification is the loop and the generator themselves.)
\* The cached lists of the composed run: the loop never reads the url of a
\* link, so one info hash and the skipped entry give every shape of list.
DrivenLists ==
    {items \in TorrentLists : \A k \in 1..Len(items) : items[k] # "h2"}

InitDriven ==
    /\ pc = "loop"
    /\ max_results \in GRange
    /\ debrid = "offcloud"
    /\ unique_searches = 0
    /\ media_info = MediaInfo
    /\ indexer_calls = 1
    /\ resolver_calls = 1
    /\ resolution_links = EmptyBuckets
    /\ key_order = <<>>
    /\ total_links = 0
    /\ total_processed = 0
    /\ link = None
    /\ sorted_links = <<>>
    /\ streams = <<>>
    /\ res = None
    /\ recorded = <<>>
    /\ outcome = "running"
    /\ fault = "none"
    /\ propagating = FALSE
    /\ stream = <<>>
    /\ stop = FALSE
    /\ rpc = "created"
    /\ cached_items \in DrivenLists
    /\ rmax = max_results
    /\ idx = 0
    /\ i = 0
    /\ sublink = None
    /\ emitted = 0
    /\ subops = 0
    /\ stop_at_start = FALSE
    /\ subops_at_stop = 0
    /\ emitted_at_stop = 0
    /\ observed = FALSE

\* The loop awaits the next link: the generator runs to its next await.
DrivenFirstPull == pc = "loop" /\ FirstPull

DrivenAvailability == pc = "loop" /\ AvailabilityReturns

DrivenSubOp == pc = "loop" /\ SubOpReturns

DrivenRaises == pc = "loop" /\ ResolverRaises

\* The loop pulls again after its body: the generator goes on after yield.
DrivenResume ==
    /\ pc = "loop"
    /\ emitted = total_processed
    /\ Resume

\* async for link in ...: the yielded link reaches the loop;
\* total_processed += 1
DrivenReceive ==
    /\ pc = "loop"
    /\ rpc = "yielded"
    /\ emitted > total_processed
    /\ link' = sublink
    /\ total_processed' = total_processed + 1
    /\ pc' = "check"
    /\ UNCHANGED <<max_results, debrid, unique_searches, media_info,
                   indexer_calls, resolver_calls, resolution_links, key_order,
                   total_links, sorted_links, streams, res, recorded, outcome,
                   fault, propagating, stop, stream, resolverVars>>

\* The generator returned: the loop is left.
DrivenEnd == rpc = "ended" /\ EndOfStream

\* The generator raised into the loop, or ranking or formatting raised.
DrivenFault == (pc = "loop" => rpc = "raised") /\ Fault

NextDriven ==
    \/ DrivenFirstPull
    \/ DrivenAvailability
    \/ DrivenSubOp
    \/ DrivenRaises
    \/ DrivenResume
    \/ DrivenReceive
    \/ DrivenEnd
    \/ DrivenFault
    \/ CheckBucket
    \/ AppendLink
    \/ CountLink
    \/ Rank
    \/ Format
    \/ RecordDuration

SpecDriven == InitDriven /\ [][NextDriven]_vars

\* The event loop runs whatever is ready, and every awaited call returns
\* or raises: a step that can be taken is taken.
FairDriven == SpecDriven /\ WF_vars(NextDriven)

\* C18: once the loop has reached the global cap by accepting a link (and
\* so has left by break), the generator is never resumed: its position, i,
\* the torrent it is at, the sub-operations started and the links yielded
\* no longer change.
C18_NoWorkAfterCap ==
    [][(total_links >= 1 /\ total_links >= max_results) =>
          /\ rpc' = rpc
          /\ i' = i
          /\ idx' = idx
          /\ subops' = subops
          /\ emitted' = emitted
      ]_vars

\* C18 witness: search ended after a break at the cap, with the generator
\* still suspended at its yield and a cached torrent it never started.
C18_Witness ==
    /\ pc = "done"
    /\ total_links >= 1
    /\ total_links >= max_results
    /\ rpc = "yielded"
    /\ NextTorrent(cached_items, idx + 1) # 0
    /\ subops < Len(cached_items)

\* C19: driven by OffCloud's generator with the same max_results G >= 1,
\* the loop processes at most G links.
C19_SeenAtMostCap ==
    max_results >= 1 => total_processed <= max_results

\* C19 witness: the loop is over with fewer than G links accepted, one
\* discarded for a full bucket, the generator ended by its own count and a
\* cached torrent never tried.
C19_Witness ==
    /\ pc = "rank"
    /\ max_results >= 1
    /\ total_links < max_results
    /\ total_processed = max_results
    /\ rpc = "ended"
    /\ i = rmax
    /\ NextTorrent(cached_items, idx + 1) # 0

\* C20: for every finite list of cached torrents whose awaited calls
\* return or raise, the generator ends or stays suspended after the break,
\* the loop is left and search comes to its end with its response made,
\* the streams or "Error searching" (only an exception of the finally
\* clause's own sink call can still replace the return); the loop consumes
\* each yielded link at most once, and the generator only moves forward
\* through the list and is never started again.
C20_Terminates ==
    /\ <>(/\ pc = "done"
          /\ res # None
          /\ ~propagating
          /\ outcome \in {"returned", "sink_raised"})
    /\ [](total_processed <= emitted /\ emitted <= subops)
    /\ [][idx' >= idx /\ (rpc' = "created" => rpc = "created")]_vars

\* C20 witness: search ended after the generator went through its whole
\* list and returned, two links consumed.
C20_Witness ==
    /\ pc = "done"
    /\ rpc = "ended"
    /\ total_processed = 2
    /\ emitted = 2
    /\ NextTorrent(cached_items, idx + 1) = 0
    /\ res.error = NoError
    /\ outcome = "returned"

====
